---- MODULE Spec2Model ----
(***************************************************************************)
(* Model of the AWS architecture diagram generator (src/src/index.ts):     *)
(* main builds a graph model, exportToDrawIO serializes it to the native   *)
(* maxGraph XML dialect, convertMaxGraphToDrawIO rewrites that text into   *)
(* the draw.io dialect with regular expressions, and the result is wrapped *)
(* in an envelope and written to one file.                                 *)
(*                                                                         *)
(* XML text is a sequence of one-character strings, so that the regular    *)
(* expression rewrites act on characters exactly as the code's do.         *)
(***************************************************************************)
EXTENDS Integers, Sequences, FiniteSets, TLC

VARIABLES
    pc,             \* position of main / exportToDrawIO / the converter
    cells,          \* the graph model built by createDiagram (a sequence of cells)
    graphModelXml,  \* exportToDrawIO: result of editor.writeGraphModel()
    converted,      \* convertMaxGraphToDrawIO: its local variable `converted`
    convertedXml,   \* exportToDrawIO: result of convertMaxGraphToDrawIO
    xmlContent,     \* exportToDrawIO: the assembled document
    file,           \* the output file on disk
    nSerialize,     \* number of calls of writeGraphModel
    nWrites,        \* number of calls of fs.writeFileSync
    error,          \* the error thrown inside exportToDrawIO, "none" if none
    rethrown,       \* exportToDrawIO's catch block threw the error to its caller
    exportLogged,   \* exportToDrawIO printed its two success messages
    mainLogged,     \* main printed "Diagram generation completed successfully"
    exitCode        \* process exit status, -1 while the process runs

vars == <<pc, cells, graphModelXml, converted, convertedXml, xmlContent, file,
          nSerialize, nWrites, error, rethrown, exportLogged, mainLogged, exitCode>>

----------------------------------------------------------------------------
(* Bounds of the model.                                                    *)

\* number of layer/filler cells that precede the cell under study
MaxFill == 2
\* number of style entries before the discriminator attribute
MaxPre == 2
\* number of style entries after the discriminator attribute
MaxPost == 1

----------------------------------------------------------------------------
(* Text primitives (String.prototype.replace, RegExp matching).            *)

Min(S) == CHOOSE k \in S : \A j \in S : k <= j

StartsAt(s, i, pat) ==
    /\ i >= 1
    /\ i + Len(pat) - 1 <= Len(s)
    /\ \A k \in 1..Len(pat) : s[i + k - 1] = pat[k]

\* leftmost occurrence of the literal pat in s at or after position i; 0 if none
NextMatch(s, pat, i) ==
    LET M == {k \in i..(Len(s) - Len(pat) + 1) : StartsAt(s, k, pat)}
    IN  IF M = {} THEN 0 ELSE Min(M)

RECURSIVE ReplaceAllFrom(_, _, _, _)
ReplaceAllFrom(s, pat, rep, i) ==
    LET j == NextMatch(s, pat, i)
    IN  IF j = 0 THEN SubSeq(s, i, Len(s))
        ELSE SubSeq(s, i, j - 1) \o rep \o ReplaceAllFrom(s, pat, rep, j + Len(pat))

\* s.replace(/pat/g, rep) for a pattern without metacharacters
ReplaceAll(s, pat, rep) == ReplaceAllFrom(s, pat, rep, 1)

\* s.replace("pat", rep): a string pattern replaces the first occurrence only
ReplaceFirst(s, pat, rep) ==
    LET j == NextMatch(s, pat, 1)
    IN  IF j = 0 THEN s
        ELSE SubSeq(s, 1, j - 1) \o rep \o SubSeq(s, j + Len(pat), Len(s))

\* the characters the class \w matches
WordChars ==
    LET w == <<"a", "b", "c", "d", "e", "f", "g", "h", "i", "j", "k", "l", "m", "n", "o", "p", "q", "r", "s", "t", "u", "v", "w", "x", "y", "z", "A", "B", "C", "D", "E", "F", "G", "H", "I", "J", "K", "L", "M", "N", "O", "P", "Q", "R", "S", "T", "U", "V", "W", "X", "Y", "Z", "0", "1", "2", "3", "4", "5", "6", "7", "8", "9", "_">>
    IN  {w[i] : i \in 1..Len(w)}

\* position of the first character c at or after i; 0 if none
FirstChar(s, c, i) == NextMatch(s, <<c>>, i)

----------------------------------------------------------------------------
(* convertMaxGraphToDrawIO, lines 355-390.                                 *)

\* variant: the four patterns without the g flag
RenameElementsFirstOnly(s) ==
    ReplaceFirst(ReplaceFirst(ReplaceFirst(ReplaceFirst(s,
        <<"<", "C", "e", "l", "l">>, <<"<", "m", "x", "C", "e", "l", "l">>), <<"<", "/", "C", "e", "l", "l", ">">>, <<"<", "/", "m", "x", "C", "e", "l", "l", ">">>),
        <<"<", "G", "e", "o", "m", "e", "t", "r", "y">>, <<"<", "m", "x", "G", "e", "o", "m", "e", "t", "r", "y">>), <<"<", "/", "G", "e", "o", "m", "e", "t", "r", "y", ">">>, <<"<", "/", "m", "x", "G", "e", "o", "m", "e", "t", "r", "y", ">">>)

\* lines 359-362: element names, every occurrence
RenameElements(s) ==
    ReplaceAll(ReplaceAll(ReplaceAll(ReplaceAll(s,
        <<"<", "C", "e", "l", "l">>, <<"<", "m", "x", "C", "e", "l", "l">>), <<"<", "/", "C", "e", "l", "l", ">">>, <<"<", "/", "m", "x", "C", "e", "l", "l", ">">>),
        <<"<", "G", "e", "o", "m", "e", "t", "r", "y">>, <<"<", "m", "x", "G", "e", "o", "m", "e", "t", "r", "y">>), <<"<", "/", "G", "e", "o", "m", "e", "t", "r", "y", ">">>, <<"<", "/", "m", "x", "G", "e", "o", "m", "e", "t", "r", "y", ">">>)

\* lines 365-368: the four replacements run over the whole text
UnprefixGeometry(s) ==
    ReplaceAll(ReplaceAll(ReplaceAll(ReplaceAll(s,
        <<"_", "x", "=", "\"">>, <<"x", "=", "\"">>), <<"_", "y", "=", "\"">>, <<"y", "=", "\"">>),
        <<"_", "w", "i", "d", "t", "h", "=", "\"">>, <<"w", "i", "d", "t", "h", "=", "\"">>), <<"_", "h", "e", "i", "g", "h", "t", "=", "\"">>, <<"h", "e", "i", "g", "h", "t", "=", "\"">>)

\* line 374: styleAttrs.match(/(\w+)="([^"]*?)"/g) || []
\* A match starts at the leftmost word character whose run of word characters
\* is followed by =" and a closing quote; the scan resumes after that quote.
WordRunEnd(t, k) ==
    Min({r \in k..Len(t) : r = Len(t) \/ t[r + 1] \notin WordChars})

AttrMatchEnd(t, k) ==
    LET r == WordRunEnd(t, k)
    IN  IF StartsAt(t, r + 1, <<"=", "\"">>) THEN FirstChar(t, "\"", r + 3) ELSE 0

RECURSIVE MatchAttrsFrom(_, _)
MatchAttrsFrom(t, j) ==
    LET M == {k \in j..Len(t) : t[k] \in WordChars /\ AttrMatchEnd(t, k) # 0}
    IN  IF M = {} THEN <<>>
        ELSE LET k == Min(M)
                 q == AttrMatchEnd(t, k)
             IN  <<SubSeq(t, k, q)>> \o MatchAttrsFrom(t, q + 1)

MatchAttrs(t) == MatchAttrsFrom(t, 1)

\* line 376: .filter(attr => !attr.startsWith("as="))
KeepAttr(attr) == ~StartsAt(attr, 1, <<"a", "s", "=">>)

\* line 377: attr.replace(/="([^"]*)"/, "=$1")
Unquote(attr) ==
    LET m == NextMatch(attr, <<"=", "\"">>, 1)
        q == IF m = 0 THEN 0 ELSE FirstChar(attr, "\"", m + 2)
    IN  IF m = 0 \/ q = 0 THEN attr
        ELSE SubSeq(attr, 1, m - 1) \o <<"=">> \o SubSeq(attr, m + 2, q - 1)
             \o SubSeq(attr, q + 1, Len(attr))

\* line 378: .join(";")
RECURSIVE Join(_, _)
Join(parts, sep) ==
    IF parts = <<>> THEN <<>>
    ELSE IF Len(parts) = 1 THEN parts[1]
    ELSE parts[1] \o sep \o Join(Tail(parts), sep)

\* lines 374-378
Styles(styleAttrs) ==
    LET attrs == MatchAttrs(styleAttrs)
        kept  == SelectSeq(attrs, KeepAttr)
    IN  Join([i \in 1..Len(kept) |-> Unquote(kept[i])], <<";">>)

\* variant: the attribute without the test for an empty string
StyleAttrAlways(styles) == <<" ", "s", "t", "y", "l", "e", "=", "\"">> \o styles \o <<";", "\"">>

\* line 380: styles ? ` style="${styles};"` : ""
StyleAttr(styles) ==
    IF styles # <<>> THEN <<" ", "s", "t", "y", "l", "e", "=", "\"">> \o styles \o <<";", "\"">> ELSE <<>>

\* variant: the style attribute placed on the geometry element
CellReplacementStyleOnGeometry(cellAttrs, geomAttrs, styleAttr) ==
    <<"<", "m", "x", "C", "e", "l", "l">> \o cellAttrs \o <<">", "<", "m", "x", "G", "e", "o", "m", "e", "t", "r", "y">> \o geomAttrs \o styleAttr
    \o <<"/", ">", "<", "/", "m", "x", "C", "e", "l", "l", ">">>

\* variant: the cell's own attributes left out
CellReplacementNoCellAttrs(cellAttrs, geomAttrs, styleAttr) ==
    <<"<", "m", "x", "C", "e", "l", "l">> \o styleAttr \o <<">", "<", "m", "x", "G", "e", "o", "m", "e", "t", "r", "y">> \o geomAttrs \o <<"/", ">", "<", "/", "m", "x", "C", "e", "l", "l", ">">>

\* line 382: the replacement text
CellReplacement(cellAttrs, geomAttrs, styleAttr) ==
    <<"<", "m", "x", "C", "e", "l", "l">> \o cellAttrs \o styleAttr \o <<">", "<", "m", "x", "G", "e", "o", "m", "e", "t", "r", "y">> \o geomAttrs
    \o <<"/", ">", "<", "/", "m", "x", "C", "e", "l", "l", ">">>

\* line 372: one attempt of the regular expression
\*   <mxCell([^>]*?)><mxGeometry([^>]*?)\/><Object ([^>]*?)as="style"[^>]*?\/><\/mxCell>
\* at position i.  Every [^>]*? group is followed by a literal that holds or
\* directly precedes a ">", so each group ends at the first ">" after its start;
\* the third group is lazy and ends at the first as="style" inside the tag.
CellMatch(s, i) ==
    LET a  == i + 7
        p1 == FirstChar(s, ">", a)
        c  == p1 + 12
        p2 == FirstChar(s, ">", c)
        e  == p2 + 9
        p3 == FirstChar(s, ">", e)
        as == NextMatch(s, <<"a", "s", "=", "\"", "s", "t", "y", "l", "e", "\"">>, e)
        ok == /\ StartsAt(s, i, <<"<", "m", "x", "C", "e", "l", "l">>)
              /\ p1 # 0
              /\ StartsAt(s, p1 + 1, <<"<", "m", "x", "G", "e", "o", "m", "e", "t", "r", "y">>)
              /\ p2 # 0
              /\ p2 - 1 >= c
              /\ s[p2 - 1] = "/"
              /\ StartsAt(s, p2 + 1, <<"<", "O", "b", "j", "e", "c", "t", " ">>)
              /\ p3 # 0
              /\ as # 0
              /\ as + 10 <= p3 - 1
              /\ s[p3 - 1] = "/"
              /\ StartsAt(s, p3 + 1, <<"<", "/", "m", "x", "C", "e", "l", "l", ">">>)
    IN  IF ok
        THEN [ok |-> TRUE, cellAttrs |-> SubSeq(s, a, p1 - 1),
              geomAttrs |-> SubSeq(s, c, p2 - 2),
              styleAttrs |-> SubSeq(s, e, as - 1), last |-> p3 + 9]
        ELSE [ok |-> FALSE, cellAttrs |-> <<>>, geomAttrs |-> <<>>,
              styleAttrs |-> <<>>, last |-> 0]

\* lines 371-384: the global replace with the callback
RECURSIVE FlattenFrom(_, _)
FlattenFrom(s, i) ==
    LET M == {k \in i..Len(s) : StartsAt(s, k, <<"<", "m", "x", "C", "e", "l", "l">>) /\ CellMatch(s, k).ok}
    IN  IF M = {} THEN SubSeq(s, i, Len(s))
        ELSE LET k == Min(M)
                 m == CellMatch(s, k)
             IN  SubSeq(s, i, k - 1)
                 \o CellReplacement(m.cellAttrs, m.geomAttrs,
                                    StyleAttr(Styles(m.styleAttrs)))
                 \o FlattenFrom(s, m.last + 1)

FlattenStyles(s) == FlattenFrom(s, 1)

\* variant: only the open tag removed
RemoveWrapperOpenOnly(s) == ReplaceFirst(s, <<"<", "G", "r", "a", "p", "h", "D", "a", "t", "a", "M", "o", "d", "e", "l", ">">>, <<>>)

\* lines 387-389
RemoveWrapper(s) ==
    ReplaceFirst(ReplaceFirst(s, <<"<", "G", "r", "a", "p", "h", "D", "a", "t", "a", "M", "o", "d", "e", "l", ">">>, <<>>),
                 <<"<", "/", "G", "r", "a", "p", "h", "D", "a", "t", "a", "M", "o", "d", "e", "l", ">">>, <<>>)

convertMaxGraphToDrawIO(s) ==
    RemoveWrapper(FlattenStyles(UnprefixGeometry(RenameElements(s))))

----------------------------------------------------------------------------
(* The graph model and its native serialization (editor.writeGraphModel,   *)
(* called at line 395; the cells are inserted at lines 237-243, 251-264    *)
(* and 338-351).  A cell is a record of its attributes, the shape of its   *)
(* geometry child and its style descriptor; an attribute is <<name, value>>.*)

Attr(n, v) == <<n, v>>

RECURSIVE AttrText(_)
AttrText(attrs) ==
    IF attrs = <<>> THEN <<>>
    ELSE <<" ">> \o attrs[1][1] \o <<"=", "\"">> \o attrs[1][2] \o <<"\"">> \o AttrText(Tail(attrs))

\* style entries a descriptor is filled from, in this order.  A style is a
\* Record<string, any> (line 214), so its keys are free: shift_x is a key that
\* ends like a prefixed geometry attribute.
StyleEntries ==
    << Attr(<<"f", "i", "l", "l", "C", "o", "l", "o", "r">>, <<"#", "F", "F", "9", "9", "0", "0">>), Attr(<<"r", "o", "u", "n", "d", "e", "d">>, <<"t", "r", "u", "e">>),
       Attr(<<"s", "h", "i", "f", "t", "_", "x">>, <<"3">>), Attr(<<"h", "t", "m", "l">>, <<"1">>), Attr(<<"f", "o", "n", "t", "S", "i", "z", "e">>, <<"1", "2">>) >>

NoStyle == [has |-> FALSE, pre |-> <<>>, post |-> <<>>]

\* a descriptor with n entries before the discriminator and m after it
Style(n, m) ==
    [has |-> TRUE, pre |-> SubSeq(StyleEntries, 1, n),
     post |-> SubSeq(StyleEntries, n + 1, n + m)]

StyleChoices == {NoStyle} \cup {Style(n, m) : n \in 0..MaxPre, m \in 0..MaxPost}

VertexGeometry ==
    << Attr(<<"_", "x">>, <<"5", "0">>), Attr(<<"_", "y">>, <<"1", "0", "0">>), Attr(<<"_", "w", "i", "d", "t", "h">>, <<"1", "2", "0">>),
       Attr(<<"_", "h", "e", "i", "g", "h", "t">>, <<"8", "0">>) >>

EdgeGeometry == << Attr(<<"r", "e", "l", "a", "t", "i", "v", "e">>, <<"1">>) >>

\* the layer cells every model starts with
Layer(id, parentAttrs, style) ==
    [kind |-> "layer", attrs |-> <<Attr(<<"i", "d">>, id)>> \o parentAttrs,
     geom |-> "none", gattrs |-> <<>>, style |-> style]

\* insertVertex, lines 237-243; the label holds an escaped <br> (line 208)
Vertex(id, label, style) ==
    [kind |-> "vertex",
     attrs |-> << Attr(<<"i", "d">>, id), Attr(<<"v", "a", "l", "u", "e">>, label), Attr(<<"v", "e", "r", "t", "e", "x">>, <<"1">>),
                  Attr(<<"p", "a", "r", "e", "n", "t">>, <<"1">>) >>,
     geom |-> "self", gattrs |-> VertexGeometry, style |-> style]

\* insertEdge, lines 251-264; geom "open" is an edge whose geometry has a
\* child element (a label offset), so that the geometry is not self-closing
Edge(id, label, src, tgt, geom, style) ==
    [kind |-> "edge",
     attrs |-> << Attr(<<"i", "d">>, id), Attr(<<"v", "a", "l", "u", "e">>, label), Attr(<<"e", "d", "g", "e">>, <<"1">>),
                  Attr(<<"p", "a", "r", "e", "n", "t">>, <<"1">>), Attr(<<"s", "o", "u", "r", "c", "e">>, src), Attr(<<"t", "a", "r", "g", "e", "t">>, tgt) >>,
     geom |-> geom, gattrs |-> EdgeGeometry, style |-> style]

CellKinds == {"layer", "vertex", "edge", "openEdge"}

StudyCell(kind, style) ==
    CASE kind = "layer"    -> Layer(<<"7">>, <<Attr(<<"p", "a", "r", "e", "n", "t">>, <<"0">>)>>, style)
      [] kind = "vertex"   -> Vertex(<<"7">>, <<"A", "&", "l", "t", ";", "b", "r", "&", "g", "t", ";", "B">>, style)
      [] kind = "edge"     -> Edge(<<"7">>, <<"g", "o">>, <<"2">>, <<"3">>, "self", style)
      [] kind = "openEdge" -> Edge(<<"7">>, <<"g", "o">>, <<"2">>, <<"3">>, "open", style)

Fillers ==
    << Layer(<<"0">>, <<>>, Style(0, 0)),
       Layer(<<"1">>, <<Attr(<<"p", "a", "r", "e", "n", "t">>, <<"0">>)>>, Style(0, 0)),
       Vertex(<<"2">>, <<"S", "3">>, Style(1, 0)),
       Edge(<<"3">>, <<>>, <<"2">>, <<"2">>, "self", Style(1, 0)) >>

EdgeStyle ==
    [has |-> TRUE, pre |-> <<Attr(<<"s", "t", "r", "o", "k", "e", "C", "o", "l", "o", "r">>, <<"#", "6", "6", "6", "6", "6", "6">>)>>, post |-> <<>>]

\* createDiagram's shape, lines 322-335: vertices A, B, C and the labelled
\* edges A->B and B->C, after the two layer cells
RoundTripDoc ==
    << Fillers[1], Fillers[2],
       Vertex(<<"2">>, <<"A">>, Style(2, 0)), Vertex(<<"3">>, <<"B">>, Style(2, 0)),
       Vertex(<<"4">>, <<"C">>, Style(2, 0)),
       Edge(<<"5">>, <<"a", "b">>, <<"2">>, <<"3">>, "self", EdgeStyle),
       Edge(<<"6">>, <<"b", "c">>, <<"3">>, <<"4">>, "self", EdgeStyle) >>

Docs ==
    {SubSeq(Fillers, 1, n) \o <<StudyCell(k, st)>> :
        n \in 0..MaxFill, k \in CellKinds, st \in StyleChoices}
    \cup {RoundTripDoc}

GeometryText(c) ==
    CASE c.geom = "none" -> <<>>
      [] c.geom = "self" ->
            <<"<", "G", "e", "o", "m", "e", "t", "r", "y">> \o AttrText(c.gattrs) \o <<" ", "a", "s", "=", "\"", "g", "e", "o", "m", "e", "t", "r", "y", "\"", "/", ">">>
      [] c.geom = "open" ->
            <<"<", "G", "e", "o", "m", "e", "t", "r", "y">> \o AttrText(c.gattrs) \o <<" ", "a", "s", "=", "\"", "g", "e", "o", "m", "e", "t", "r", "y", "\"", ">">>
            \o <<"<", "P", "o", "i", "n", "t", " ", "_", "x", "=", "\"", "7", "\"", " ", "_", "y", "=", "\"", "8", "\"", " ", "a", "s", "=", "\"", "o", "f", "f", "s", "e", "t", "\"", "/", ">", "<", "/", "G", "e", "o", "m", "e", "t", "r", "y", ">">>

ObjectText(c) ==
    IF c.style.has
    THEN <<"<", "O", "b", "j", "e", "c", "t">> \o AttrText(c.style.pre) \o <<" ", "a", "s", "=", "\"", "s", "t", "y", "l", "e", "\"">>
         \o AttrText(c.style.post) \o <<"/", ">">>
    ELSE <<>>

CellText(c) ==
    IF c.geom = "none" /\ ~c.style.has
    THEN <<"<", "C", "e", "l", "l">> \o AttrText(c.attrs) \o <<"/", ">">>
    ELSE <<"<", "C", "e", "l", "l">> \o AttrText(c.attrs) \o <<">">> \o GeometryText(c) \o ObjectText(c)
         \o <<"<", "/", "C", "e", "l", "l", ">">>

RECURSIVE CellsText(_)
CellsText(cs) ==
    IF cs = <<>> THEN <<>> ELSE CellText(cs[1]) \o CellsText(Tail(cs))

writeGraphModel(cs, wrapped) ==
    IF wrapped
    THEN <<"<", "G", "r", "a", "p", "h", "D", "a", "t", "a", "M", "o", "d", "e", "l", ">", "<", "r", "o", "o", "t", ">">> \o CellsText(cs) \o <<"<", "/", "r", "o", "o", "t", ">", "<", "/", "G", "r", "a", "p", "h", "D", "a", "t", "a", "M", "o", "d", "e", "l", ">">>
    ELSE CellsText(cs)

----------------------------------------------------------------------------
(* main and exportToDrawIO, lines 392-425 and 433-488.                     *)

\* values of new Date().toISOString() and of the random etag (line 401)
Timestamps == {"2024-01-01T00:00:00.000Z"}
Etags == {"k3x9q", "p0w2m"}

NoFile == [state |-> "absent", data |-> <<>>]

Init ==
    /\ pc = "main"
    /\ cells = <<>>
    /\ graphModelXml = <<>>
    /\ converted = <<>>
    /\ convertedXml = <<>>
    /\ xmlContent = [modified |-> "", etag |-> "", body |-> <<>>]
    /\ file = NoFile
    /\ nSerialize = 0
    /\ nWrites = 0
    /\ error = "none"
    /\ rethrown = FALSE
    /\ exportLogged = FALSE
    /\ mainLogged = FALSE
    /\ exitCode = -1

\* lines 445-449: the constructor and createDiagram
CreateDiagram ==
    /\ pc = "main"
    /\ \E d \in Docs : cells' = d
    /\ pc' = "export"
    /\ UNCHANGED <<graphModelXml, converted, convertedXml, xmlContent, file,
                   nSerialize, nWrites, error, rethrown, exportLogged,
                   mainLogged, exitCode>>

\* line 395, returning.  The codec wraps the cells in GraphDataModel and root;
\* the bare sequence of cells is the form line 388 leaves untouched.
SerializeOk ==
    /\ pc = "export"
    /\ \E wrapped \in BOOLEAN : graphModelXml' = writeGraphModel(cells, wrapped)
    /\ nSerialize' = nSerialize + 1
    /\ converted' = graphModelXml'
    /\ pc' = "rename"
    /\ UNCHANGED <<cells, convertedXml, xmlContent, file, nWrites, error,
                   rethrown, exportLogged, mainLogged, exitCode>>

\* line 395, throwing
SerializeThrows ==
    /\ pc = "export"
    /\ nSerialize' = nSerialize + 1
    /\ error' = "serialize"
    /\ pc' = "catch"
    /\ UNCHANGED <<cells, graphModelXml, converted, convertedXml, xmlContent,
                   file, nWrites, rethrown, exportLogged, mainLogged, exitCode>>

ConvertFrame ==
    UNCHANGED <<cells, graphModelXml, xmlContent, file, nSerialize, nWrites,
                error, rethrown, exportLogged, mainLogged, exitCode>>

\* lines 359-362
StepRename ==
    /\ pc = "rename"
    /\ converted' = RenameElements(converted)
    /\ pc' = "unprefix"
    /\ UNCHANGED convertedXml
    /\ ConvertFrame

\* lines 365-368
StepUnprefix ==
    /\ pc = "unprefix"
    /\ converted' = UnprefixGeometry(converted)
    /\ pc' = "flatten"
    /\ UNCHANGED convertedXml
    /\ ConvertFrame

\* lines 371-384
StepFlatten ==
    /\ pc = "flatten"
    /\ converted' = FlattenStyles(converted)
    /\ pc' = "unwrap"
    /\ UNCHANGED convertedXml
    /\ ConvertFrame

\* lines 387-389 and the assignment of line 398
StepRemoveWrapper ==
    /\ pc = "unwrap"
    /\ convertedXml' = RemoveWrapper(converted)
    /\ pc' = "assemble"
    /\ UNCHANGED converted
    /\ ConvertFrame

\* lines 401-409
Assemble ==
    /\ pc = "assemble"
    /\ \E t \in Timestamps, e \in Etags :
          xmlContent' = [modified |-> t, etag |-> e, body |-> convertedXml]
    /\ pc' = "write"
    /\ UNCHANGED <<cells, graphModelXml, converted, convertedXml, file,
                   nSerialize, nWrites, error, rethrown, exportLogged,
                   mainLogged, exitCode>>

\* line 413, returning: the whole document is in the file
WriteFileOk ==
    /\ pc = "write"
    /\ nWrites' = nWrites + 1
    /\ file' = [state |-> "complete", data |-> xmlContent.body]
    /\ pc' = "log"
    /\ UNCHANGED <<cells, graphModelXml, converted, convertedXml, xmlContent,
                   nSerialize, error, rethrown, exportLogged, mainLogged,
                   exitCode>>

\* line 413, throwing.  fs.writeFileSync opens the path with flag "w" (create
\* or truncate) and then writes: it fails before the open (no permission) and
\* leaves the path as it was, or after it (disk full) and leaves a file that
\* holds none or part of the document.
WriteFileThrows ==
    /\ pc = "write"
    /\ nWrites' = nWrites + 1
    /\ \/ file' = file
       \/ file' = [state |-> "partial", data |-> <<>>]
    /\ error' = "write"
    /\ pc' = "catch"
    /\ UNCHANGED <<cells, graphModelXml, converted, convertedXml, xmlContent,
                   nSerialize, rethrown, exportLogged, mainLogged, exitCode>>

\* lines 415-420
LogSuccess ==
    /\ pc = "log"
    /\ exportLogged' = TRUE
    /\ pc' = "mainTail"
    /\ UNCHANGED <<cells, graphModelXml, converted, convertedXml, xmlContent,
                   file, nSerialize, nWrites, error, rethrown, mainLogged,
                   exitCode>>

\* variant: a catch block that reports the error and returns normally
ExportCatchSwallow ==
    /\ pc = "catch"
    /\ pc' = "mainTail"
    /\ UNCHANGED <<cells, graphModelXml, converted, convertedXml, xmlContent,
                   file, nSerialize, nWrites, error, rethrown, exportLogged,
                   mainLogged, exitCode>>

\* lines 421-424: console.error, throw error
ExportCatch ==
    /\ pc = "catch"
    /\ rethrown' = TRUE
    /\ pc' = "mainCatch"
    /\ UNCHANGED <<cells, graphModelXml, converted, convertedXml, xmlContent,
                   file, nSerialize, nWrites, error, exportLogged, mainLogged,
                   exitCode>>

\* lines 484-487: console.error, process.exit(1)
MainCatch ==
    /\ pc = "mainCatch"
    /\ exitCode' = 1
    /\ pc' = "exited"
    /\ UNCHANGED <<cells, graphModelXml, converted, convertedXml, xmlContent,
                   file, nSerialize, nWrites, error, rethrown, exportLogged,
                   mainLogged>>

\* lines 455-483: the closing messages; main returns and the process ends
MainTail ==
    /\ pc = "mainTail"
    /\ mainLogged' = TRUE
    /\ exitCode' = 0
    /\ pc' = "exited"
    /\ UNCHANGED <<cells, graphModelXml, converted, convertedXml, xmlContent,
                   file, nSerialize, nWrites, error, rethrown, exportLogged>>

Next ==
    \/ CreateDiagram
    \/ SerializeOk
    \/ SerializeThrows
    \/ StepRename
    \/ StepUnprefix
    \/ StepFlatten
    \/ StepRemoveWrapper
    \/ Assemble
    \/ WriteFileOk
    \/ WriteFileThrows
    \/ LogSuccess
    \/ ExportCatch
    \/ MainCatch
    \/ MainTail

Spec == Init /\ [][Next]_vars

----------------------------------------------------------------------------
(* Reading XML text back, for the properties below.  The serialized text   *)
(* holds no character data between tags and no ">" inside attribute values *)
(* (the serializer escapes it), so the text is a sequence of tags.         *)

Contains(s, pat) == NextMatch(s, pat, 1) # 0

EndsWith(s, pat) == StartsAt(s, Len(s) - Len(pat) + 1, pat)

RECURSIVE TagsFrom(_, _)
TagsFrom(s, i) ==
    LET p == FirstChar(s, ">", i)
    IN  IF i > Len(s) \/ p = 0 THEN <<>>
        ELSE <<SubSeq(s, i, p)>> \o TagsFrom(s, p + 1)

Tags(s) == TagsFrom(s, 1)

\* the tag opens an element called name
Opens(tag, name) ==
    /\ StartsAt(tag, 1, <<"<">> \o name)
    /\ tag[Len(name) + 2] \in {" ", ">", "/"}

OpenIdx(tags, name) == {k \in 1..Len(tags) : Opens(tags[k], name)}

\* position in tags of the i-th element called name
NthOpen(tags, name, i) ==
    CHOOSE k \in OpenIdx(tags, name) :
        Cardinality({j \in OpenIdx(tags, name) : j <= k}) = i

\* the tags of the i-th element called name: from its opening tag up to the
\* next opening tag of that name
Segment(tags, name, i) ==
    LET idx  == OpenIdx(tags, name)
        from == NthOpen(tags, name, i)
        next == {k \in idx : k > from}
    IN  SubSeq(tags, from, IF next = {} THEN Len(tags) ELSE Min(next) - 1)

\* names of the attributes of a tag: the word runs between a space and ="
AttrNames(tag) ==
    {SubSeq(tag, k, WordRunEnd(tag, k)) : k \in
        {k \in 2..Len(tag) : /\ tag[k - 1] = " "
                              /\ tag[k] \in WordChars
                              /\ StartsAt(tag, WordRunEnd(tag, k) + 1, <<"=", "\"">>)}}

AttrNamesOutside(tags, name) ==
    UNION {AttrNames(tags[k]) : k \in {j \in 1..Len(tags) : ~Opens(tags[j], name)}}

\* number of occurrences of pat in s
Occurrences(s, pat) == Cardinality({k \in 1..Len(s) : StartsAt(s, k, pat)})

RECURSIVE FlatStyle(_)
\* name=value; for each entry, in order
FlatStyle(entries) ==
    IF entries = <<>> THEN <<>>
    ELSE entries[1][1] \o <<"=">> \o entries[1][2] \o <<";">> \o FlatStyle(Tail(entries))

Converted == pc = "assemble"
InTags == Tags(graphModelXml)
OutTags == Tags(convertedXml)
OutCell(i) == Segment(OutTags, <<"m", "x", "C", "e", "l", "l">>, i)
\* the regular expression of line 372 applies to the cell: a self-closing
\* geometry directly followed by the style descriptor
Flattened(c) == c.geom = "self" /\ c.style.has

----------------------------------------------------------------------------
(* The claims.                                                             *)

\* C1: the output holds exactly as many mxCell elements as the input holds
\* Cell elements, whether or not the style rewrite matched a cell.
C1_CellCountPreserved ==
    Converted =>
        /\ Cardinality(OpenIdx(InTags, <<"C", "e", "l", "l">>)) = Len(cells)
        /\ Cardinality(OpenIdx(OutTags, <<"m", "x", "C", "e", "l", "l">>)) = Len(cells)
        /\ OpenIdx(OutTags, <<"C", "e", "l", "l">>) = {}

C1_Witness ==
    /\ Converted
    /\ Len(cells) = 3
    /\ Flattened(cells[3])
    /\ ~Flattened(cells[1])
    /\ Cardinality(OpenIdx(OutTags, <<"m", "x", "C", "e", "l", "l">>)) = 3

\* C2: for every cell whose content is a geometry element directly followed
\* by a style descriptor, the cell's style attribute is name=value; for all
\* attributes of the descriptor but the discriminator, in their order,
\* wherever the discriminator sits.
C2_StyleIsAllEntries ==
    Converted =>
        \A i \in 1..Len(cells) :
            LET c == cells[i]
                entries == c.style.pre \o c.style.post
            IN  (c.geom # "none" /\ c.style.has /\ entries # <<>>) =>
                    /\ Occurrences(OutCell(i)[1], <<" ", "s", "t", "y", "l", "e", "=", "\"">>) = 1
                    /\ Contains(OutCell(i)[1],
                                <<" ", "s", "t", "y", "l", "e", "=", "\"">> \o FlatStyle(entries) \o <<"\"">>)

\* C3: every cell with a style descriptor has its style as one style
\* attribute on the cell and no style descriptor element in the output,
\* whatever the shape of its geometry element.
C3_NoDescriptorLeft ==
    Converted =>
        \A i \in 1..Len(cells) :
            LET c == cells[i]
                seg == OutCell(i)
            IN  c.style.has =>
                    /\ \A k \in 1..Len(seg) : ~Opens(seg[k], <<"O", "b", "j", "e", "c", "t">>)
                    /\ (c.style.pre \o c.style.post # <<>>) =>
                           Occurrences(seg[1], <<" ", "s", "t", "y", "l", "e", "=", "\"">>) = 1

\* C4: the un-prefixing touches geometry elements only: every attribute name
\* on a non-geometry element of the output is an attribute name of a
\* non-geometry element of the input (or the synthesized style attribute).
C4_UnprefixOnlyGeometry ==
    Converted =>
        AttrNamesOutside(OutTags, <<"m", "x", "G", "e", "o", "m", "e", "t", "r", "y">>)
            \subseteq AttrNamesOutside(InTags, <<"G", "e", "o", "m", "e", "t", "r", "y">>) \cup {<<"s", "t", "y", "l", "e">>}

\* C5: for an input wrapped in GraphDataModel the output holds neither the
\* open nor the close tag of the wrapper, and every inner cell is present.
C5_WrapperRemoved ==
    (Converted /\ Contains(graphModelXml, <<"<", "G", "r", "a", "p", "h", "D", "a", "t", "a", "M", "o", "d", "e", "l", ">">>)) =>
        /\ ~Contains(convertedXml, <<"<", "G", "r", "a", "p", "h", "D", "a", "t", "a", "M", "o", "d", "e", "l", ">">>)
        /\ ~Contains(convertedXml, <<"<", "/", "G", "r", "a", "p", "h", "D", "a", "t", "a", "M", "o", "d", "e", "l", ">">>)
        /\ ~Contains(convertedXml, <<"G", "r", "a", "p", "h", "D", "a", "t", "a", "M", "o", "d", "e", "l">>)
        /\ \A i \in 1..Len(cells) :
              Contains(convertedXml, <<"<", "m", "x", "C", "e", "l", "l">> \o AttrText(<<cells[i].attrs[1]>>))

C5_Witness ==
    /\ Converted
    /\ Contains(graphModelXml, <<"<", "G", "r", "a", "p", "h", "D", "a", "t", "a", "M", "o", "d", "e", "l", ">">>)
    /\ Contains(graphModelXml, <<"<", "/", "G", "r", "a", "p", "h", "D", "a", "t", "a", "M", "o", "d", "e", "l", ">">>)
    /\ Len(cells) >= 2
    /\ StartsAt(convertedXml, 1, <<"<", "r", "o", "o", "t", ">", "<", "m", "x", "C", "e", "l", "l">>)

\* C6: a flattened style sits on the cell's opening tag, after the cell's
\* own attributes, and the opening tag is followed by the self-closing
\* geometry: the style is never on the geometry element nor after it.
C6_StyleBeforeGeometry ==
    Converted =>
        \A i \in 1..Len(cells) :
            LET c   == cells[i]
                seg == OutCell(i)
                own == <<"<", "m", "x", "C", "e", "l", "l">> \o AttrText(c.attrs)
            IN  ((Flattened(c) /\ c.style.pre # <<>>)
                    \/ \E k \in 1..Len(seg) : Contains(seg[k], <<"s", "t", "y", "l", "e", "=", "\"">>)) =>
                    /\ Len(seg) >= 3
                    /\ StartsAt(seg[1], 1, own \o <<" ", "s", "t", "y", "l", "e", "=", "\"">>)
                    /\ EndsWith(seg[1], <<";", "\"", ">">>)
                    /\ Occurrences(seg[1], <<"s", "t", "y", "l", "e", "=", "\"">>) = 1
                    /\ Opens(seg[2], <<"m", "x", "G", "e", "o", "m", "e", "t", "r", "y">>)
                    /\ EndsWith(seg[2], <<"/", ">">>)
                    /\ ~Contains(seg[2], <<"s", "t", "y", "l", "e", "=">>)
                    /\ seg[3] = <<"<", "/", "m", "x", "C", "e", "l", "l", ">">>
                    /\ \A k \in 4..Len(seg) : ~Contains(seg[k], <<"s", "t", "y", "l", "e", "=">>)

C6_Witness ==
    /\ Converted
    /\ \E i \in 1..Len(cells) :
          /\ Flattened(cells[i])
          /\ Len(cells[i].style.pre) = 2
          /\ Contains(OutCell(i)[1], <<" ", "s", "t", "y", "l", "e", "=", "\"", "f", "i", "l", "l", "C", "o", "l", "o", "r", "=">>)
          /\ Opens(OutCell(i)[2], <<"m", "x", "G", "e", "o", "m", "e", "t", "r", "y">>)

C8_NoStyleSynthesized ==
    Converted =>
        \A i \in 1..Len(cells) :
            LET c   == cells[i]
                seg == OutCell(i)
            IN  /\ ~c.style.has =>
                      /\ \A k \in 1..Len(seg) : ~Contains(seg[k], <<"s", "t", "y", "l", "e">>)
                      /\ Opens(seg[1], <<"m", "x", "C", "e", "l", "l">>)
                      /\ c.geom # "none" => Opens(seg[2], <<"m", "x", "G", "e", "o", "m", "e", "t", "r", "y">>)
                      /\ \A k \in 1..Len(seg) :
                            /\ ~Opens(seg[k], <<"C", "e", "l", "l">>)
                            /\ ~Opens(seg[k], <<"G", "e", "o", "m", "e", "t", "r", "y">>)
                            /\ seg[k] \notin {<<"<", "/", "C", "e", "l", "l", ">">>, <<"<", "/", "G", "e", "o", "m", "e", "t", "r", "y", ">">>}
                /\ (c.style.has /\ c.style.pre = <<>> /\ c.style.post = <<>>) =>
                      \A k \in 1..Len(seg) : ~Contains(seg[k], <<"s", "t", "y", "l", "e", "=", "\"">>)
                                                \/ Opens(seg[k], <<"O", "b", "j", "e", "c", "t">>)

C8_Witness ==
    /\ Converted
    /\ \E i \in 1..Len(cells) :
          /\ Flattened(cells[i])
          /\ cells[i].style.pre = <<>>
          /\ cells[i].style.post = <<>>
          /\ Len(OutCell(i)) = 3
          /\ ~Contains(OutCell(i)[1], <<"s", "t", "y", "l", "e">>)

\* C9: a failure of the serialization or of the file write is thrown on to
\* main, no success message is printed, the process exits with status 1,
\* and no step is tried again.
C9_FailurePropagates ==
    /\ nSerialize <= 1
    /\ nWrites <= 1
    /\ error # "none" =>
          /\ pc \in {"catch", "mainCatch", "exited"}
          /\ ~exportLogged
          /\ ~mainLogged
          /\ pc \in {"mainCatch", "exited"} => rethrown
          /\ pc = "exited" => exitCode = 1
          /\ exitCode \in {-1, 1}

C9_Witness ==
    /\ pc = "exited"
    /\ error = "write"
    /\ rethrown
    /\ exitCode = 1

\* C10: the file is written at most once and only after serialization,
\* conversion and assembly: the file holds the complete document or there is
\* no file at all.
C10_CompleteOrNothing ==
    /\ nWrites <= 1
    /\ nWrites = 1 =>
          /\ nSerialize = 1
          /\ xmlContent.body = convertedXml
          /\ xmlContent.etag # ""
    /\ file # NoFile =>
          /\ file.state = "complete"
          /\ file.data = xmlContent.body

====
